---- MODULE Spec2Model ----
(***************************************************************************)
(* Rate-limited message dispatch of the automated messaging extension:     *)
(* RateLimiter (the class at the end of services/openai.ts),               *)
(* MessageDeliveryService (services/messageDelivery.ts) and the automation *)
(* scheduler of background.ts, over chrome.storage.local.                  *)
(*                                                                         *)
(* A chrome.storage.local call takes effect when it is issued and the      *)
(* browser answers the calls in the order they were issued; the promise a  *)
(* call returns resolves in a later task, so every `await` of a storage    *)
(* call, of the generator or of a timer is a step boundary.  An `await` of *)
(* an async function that never suspends (canSendMessage,                  *)
(* actuallySendMessage) is not.                                            *)
(*                                                                         *)
(* Time is counted in ticks of 30 minutes.  A storage call is answered     *)
(* within the tick it was issued in; the generator and the timers may take *)
(* longer.                                                                 *)
(*                                                                         *)
(* SpecSeq is one caller that awaits each send before the next, over       *)
(* pipelines constructed in turn, with the clock running.  Spec is the     *)
(* background worker with its timer, its restarts and the manual sends,    *)
(* within one tick of the clock.  SpecSched is the worker with the popup   *)
(* closed and SpecLive is SpecSched with every pending step taken in the   *)
(* end; SpecProgress is SpecLive with the armed timer firing in the end.   *)
(* SpecStore adds the profiles arriving from visited pages and the reset   *)
(* of the store to one pipeline.  SpecLedger is one caller of the          *)
(* RateLimiter's own methods.  SpecPure applies the pure functions:        *)
(* canSendMessage, the eligibility test, stopAutomation, the profile       *)
(* serialization of utils/serialization.ts and the filters of              *)
(* utils/filter.ts.                                                        *)
(***************************************************************************)
EXTENDS Integers, Sequences, FiniteSets, TLC

\* ---------------------------------------------------------------- bounds
StartTime == 45
MaxTime == 48
MaxProcs == 2
MaxCalls == 2
MaxCount == 2
NProfiles == 1
MaxRecipients == 2

\* ------------------------------------------------------ program constants
\* 1000 * 60 * 60 ms, in ticks
Hour == 2
\* 1000 * 60 * 60 * 24 ms, in ticks
Day == 48
\* "Don't message same person more than once per week"
CooldownDays == 7
\* "Keep only last 500 messages"
HistoryCap == 500
\* "Keep only last 1000 templates"
TemplateCap == 1000
\* a positive delayBetweenMessages (DEFAULT_SETTINGS: 60000 ms), in ticks
DefaultDelay == 1
\* the timer period when delayBetweenMessages is 0 (60000 ms), in ticks
FallbackInterval == 1

DailyReason == "Daily message limit reached"
HourlyReason == "Hourly message limit reached"
NotConfigured == "OpenAI API key not configured"
SendFailed == "Failed to send message"
GenerateFailed == "Failed to generate message: error"
SendError == "Error sending message: error"

\* ------------------------------------------------------------ RateLimiter
\* An optional value (lastSentAt?, lastMessageSent?, a stored key) is the
\* empty sequence when absent and a one-element sequence when present.
Absent == << >>
Some(x) == << x >>
IsSet(o) == Len(o) > 0
Val(o) == o[1]

ZeroStats ==
  [totalSent |-> 0, totalFailed |-> 0, messagesToday |-> 0,
   messagesThisHour |-> 0, lastSentAt |-> Absent]

DayOf(t) == t \div Day

IsDifferentDay(date1, date2) == DayOf(date1) # DayOf(date2)

IsDifferentHour(date1, date2) ==
  (IF date1 >= date2 THEN date1 - date2 ELSE date2 - date1) >= Hour

UpdateHourlyCount(stats, t) ==
  IF ~IsSet(stats.lastSentAt) \/ IsDifferentHour(t, Val(stats.lastSentAt))
  THEN 0 ELSE stats.messagesThisHour

\* updateTimeBasedCounts forgetting lastSentAt with the hour it closes
UpdateTimeBasedCounts_ForgetsLast(stats, t) ==
  [stats EXCEPT
     !.messagesToday =
        IF ~IsSet(stats.lastSentAt) \/ IsDifferentDay(t, Val(stats.lastSentAt))
        THEN 0 ELSE @,
     !.messagesThisHour = UpdateHourlyCount(stats, t),
     !.lastSentAt =
        IF IsSet(@) /\ IsDifferentHour(t, Val(@)) THEN Absent ELSE @]

UpdateTimeBasedCounts(stats, t) ==
  [stats EXCEPT
     !.messagesToday =
        IF ~IsSet(stats.lastSentAt) \/ IsDifferentDay(t, Val(stats.lastSentAt))
        THEN 0 ELSE @,
     !.messagesThisHour = UpdateHourlyCount(stats, t)]

\* getTimeUntilNextDay: the time to the next local midnight
GetTimeUntilNextDay(t) == (DayOf(t) + 1) * Day - t

\* getTimeUntilNextHour: the time to the next full hour of the clock
GetTimeUntilNextHour(t) == ((t \div Hour) + 1) * Hour - t

\* canSendMessage with the two checks in the other order
CanSendMessage_HourlyFirst(stats, t, rateLimit) ==
  LET s == UpdateTimeBasedCounts(stats, t) IN
  IF s.messagesThisHour >= rateLimit.messagesPerHour
    THEN [allowed |-> FALSE, reason |-> HourlyReason,
          waitTime |-> Some(GetTimeUntilNextHour(t)), stats |-> s]
  ELSE IF s.messagesToday >= rateLimit.messagesPerDay
    THEN [allowed |-> FALSE, reason |-> DailyReason,
          waitTime |-> Some(GetTimeUntilNextDay(t)), stats |-> s]
  ELSE [allowed |-> TRUE, reason |-> "", waitTime |-> Absent, stats |-> s]

CanSendMessage(stats, t, rateLimit) ==
  LET s == UpdateTimeBasedCounts(stats, t) IN
  IF s.messagesToday >= rateLimit.messagesPerDay
    THEN [allowed |-> FALSE, reason |-> DailyReason,
          waitTime |-> Some(GetTimeUntilNextDay(t)), stats |-> s]
  ELSE IF s.messagesThisHour >= rateLimit.messagesPerHour
    THEN [allowed |-> FALSE, reason |-> HourlyReason,
          waitTime |-> Some(GetTimeUntilNextHour(t)), stats |-> s]
  ELSE [allowed |-> TRUE, reason |-> "", waitTime |-> Absent, stats |-> s]

RecordMessageSent(stats, t) ==
  [stats EXCEPT !.totalSent = @ + 1, !.messagesToday = @ + 1,
                !.messagesThisHour = @ + 1, !.lastSentAt = Some(t)]

RecordMessageFailed(stats) == [stats EXCEPT !.totalFailed = @ + 1]

\* loadStats taking the window counts and lastSentAt of the stored record
\* and leaving the totals in memory
LoadStats_KeepsTotals(stats, stored, t) ==
  IF ~IsSet(stored) THEN stats
  ELSE UpdateTimeBasedCounts(
         [Val(stored) EXCEPT
            !.totalSent = stats.totalSent,
            !.totalFailed = stats.totalFailed,
            !.lastSentAt = IF IsSet(@) THEN @ ELSE stats.lastSentAt], t)

\* loadStats: { ...this.stats, ...stored.messageStats }, then
\* updateTimeBasedCounts; a stored record without lastSentAt leaves the
\* in-memory one in place.
LoadStats(stats, stored, t) ==
  IF ~IsSet(stored) THEN stats
  ELSE UpdateTimeBasedCounts(
         [Val(stored) EXCEPT
            !.lastSentAt = IF IsSet(@) THEN @ ELSE stats.lastSentAt], t)

\* ------------------------------------------------------------ eligibility
\* the cooldown compared with > instead of >=
IsEligible_Strict(profile, t) ==
  \/ profile.messageCount = 0
  \/ ~IsSet(profile.lastMessageSent)
  \/ t - Val(profile.lastMessageSent) > CooldownDays * Day

IsEligible(profile, t) ==
  \/ profile.messageCount = 0
  \/ ~IsSet(profile.lastMessageSent)
  \/ t - Val(profile.lastMessageSent) >= CooldownDays * Day

\* ---------------------------------------------------------- serialization
\* messageCount || 0: a count of 0 is falsy and is replaced by 0
OrZero(n) == IF n # 0 THEN n ELSE 0

\* Date.toISOString(): the instant at the precision of a Date
ToISOString(t) == [iso |-> t]

\* new Date(isoString)
NewDate(s) == s.iso

\* serializeProfile with the dates cut to the calendar day
SerializeProfile_DayOnly(profile) ==
  [id |-> profile.id,
   collectedAt |-> Some(ToISOString(DayOf(profile.collectedAt) * Day)),
   messageCount |-> OrZero(profile.messageCount),
   lastMessageSent |-> IF IsSet(profile.lastMessageSent)
                         THEN Some(ToISOString(
                                DayOf(Val(profile.lastMessageSent)) * Day))
                         ELSE Absent]

\* serializeProfile: the dates become ISO strings, messageCount || 0
SerializeProfile(profile) ==
  [id |-> profile.id,
   collectedAt |-> Some(ToISOString(profile.collectedAt)),
   messageCount |-> OrZero(profile.messageCount),
   lastMessageSent |-> IF IsSet(profile.lastMessageSent)
                         THEN Some(ToISOString(Val(profile.lastMessageSent)))
                         ELSE Absent]

\* deserializeProfile with lastMessageSent falling back to a date, as
\* collectedAt does
DeserializeProfile_DateNow(profileData, t) ==
  [id |-> profileData.id,
   collectedAt |-> IF IsSet(profileData.collectedAt)
                     THEN NewDate(Val(profileData.collectedAt))
                     ELSE t,
   messageCount |-> OrZero(profileData.messageCount),
   lastMessageSent |-> IF IsSet(profileData.lastMessageSent)
                         THEN Some(NewDate(Val(profileData.lastMessageSent)))
                         ELSE Some(0)]

\* deserializeProfile at time t: the ISO strings become dates, a missing
\* collectedAt becomes the current time, messageCount || 0
DeserializeProfile(profileData, t) ==
  [id |-> profileData.id,
   collectedAt |-> IF IsSet(profileData.collectedAt)
                     THEN NewDate(Val(profileData.collectedAt))
                     ELSE t,
   messageCount |-> OrZero(profileData.messageCount),
   lastMessageSent |-> IF IsSet(profileData.lastMessageSent)
                         THEN Some(NewDate(Val(profileData.lastMessageSent)))
                         ELSE Absent]

\* --------------------------------------------------------------- messages
\* customMessage as sendMessage receives it: undefined, "" or a text.
CustomSet == {"undefined", "", "custom text"}
\* if (customMessage): undefined and "" are falsy
Truthy(customMessage) == customMessage \notin {"undefined", ""}
\* texts the generator may produce
GenTexts == {"[Recipient] AI text"}

\* the chain of .replace calls on the placeholder tokens
ReplaceTokens(message) ==
  IF message = "[Recipient] AI text" THEN "name AI text" ELSE message

\* greetingRegex.test(body)
HasGreeting(body) == body \in {"Hi name, AI text"}

\* A message is the triple salutation / body / closing it is assembled from.
ApplyNameTemplate(message) ==
  LET body == ReplaceTokens(message) IN
  [salutation |-> IF HasGreeting(body) THEN "" ELSE "Hi name,",
   body |-> body, closing |-> "Best, sender"]

\* the name template applied to the override text as well
Verbatim_Templated(customMessage) ==
  [salutation |-> "Hi name,", body |-> customMessage,
   closing |-> "Best, sender"]

\* message = customMessage
Verbatim(customMessage) ==
  [salutation |-> "", body |-> customMessage, closing |-> ""]

NoMessage == [salutation |-> "", body |-> "", closing |-> ""]

\* ------------------------------------------------------------------ state
VARIABLES
  now,                     \* Date.now(), in ticks
  settings,                \* the AutomationSettings in use
  storage,                 \* chrome.storage.local
  openaiClient,            \* openai.ts: openaiClient !== null
  limiters,                \* per MessageDeliveryService: its this.rateLimiter
  messageDeliveryService,  \* background.ts global, 0 is null
  automationInterval,      \* background.ts global, 0 is null
  timers,                  \* the intervals armed and not cleared: id, period
  procs,                   \* the asynchronous calls, by slot
  queue,                   \* the chrome.storage.local calls not yet answered
  calls,                   \* number of calls admitted or recorded so far
  deliveries,              \* log of the actuallySendMessage invocations
  pin, pout                \* argument and result of the function applied

sysvars == << now, settings, storage, openaiClient, limiters,
              messageDeliveryService, automationInterval, timers, procs,
              queue, calls, deliveries >>
vars == << now, settings, storage, openaiClient, limiters,
           messageDeliveryService, automationInterval, timers, procs,
           queue, calls, deliveries, pin, pout >>

Procs == 1..MaxProcs

NewProfile(id) ==
  [id |-> id, collectedAt |-> 0, messageCount |-> 0, lastMessageSent |-> Absent]

NoResult == [success |-> FALSE, error |-> "", message |-> NoMessage]
Failure(error) == [success |-> FALSE, error |-> error, message |-> NoMessage]
Success(message) == [success |-> TRUE, error |-> "", message |-> message]

IdleProc ==
  [pc |-> "idle", kind |-> "", svc |-> 0, profile |-> NewProfile(0),
   profiles |-> << >>, custom |-> "undefined", message |-> NoMessage,
   path |-> "", snap |-> << >>, result |-> NoResult,
   \* history variables: the time and the store at the call, what happened
   t0 |-> 0, pre |-> << >>, admitted |-> FALSE, genCalled |-> FALSE,
   delayed |-> FALSE, delivered |-> FALSE, trace |-> << >>, n0 |-> 0,
   born |-> 0]

EmptyStorage ==
  [messageStats |-> Absent, profiles |-> << >>,
   messageHistory |-> << >>, messageTemplates |-> << >>]

\* the policies the user has saved: one send an hour without pacing, and
\* one send a day with the pacing delay
RateLimits ==
  { [messagesPerHour |-> 1, messagesPerDay |-> 5, delayBetweenMessages |-> 0],
    [messagesPerHour |-> 1, messagesPerDay |-> 1,
     delayBetweenMessages |-> DefaultDelay] }

PureIdle == [op |-> "none"]

\* The store with the profiles collected and nothing sent yet.
FreshStorage ==
  [EmptyStorage EXCEPT !.profiles = [i \in 1..NProfiles |-> NewProfile(i)]]

\* The store an earlier session left behind: one generated message was
\* sent to profile 1 at tick 0, earlier the same day.
UsedStorage ==
  LET m == ApplyNameTemplate("[Recipient] AI text") IN
  [messageStats |-> Some(RecordMessageSent(ZeroStats, 0)),
   profiles |-> [i \in 1..NProfiles |->
                   IF i = 1 THEN [NewProfile(1) EXCEPT
                                    !.messageCount = 1,
                                    !.lastMessageSent = Some(0)]
                            ELSE NewProfile(i)],
   messageHistory |-> << [profileId |-> 1, message |-> m,
                          success |-> TRUE, error |-> ""] >>,
   messageTemplates |-> << [profileId |-> 1, content |-> m,
                            success |-> TRUE, error |-> ""] >>]

\* The background worker has just started: no service, no timer.
SysInit ==
  /\ now = StartTime
  /\ \E rl \in RateLimits, enabled \in BOOLEAN, apiKey \in BOOLEAN :
       settings = [enabled |-> enabled, openaiApiKey |-> apiKey,
                   rateLimit |-> rl]
  /\ storage \in {FreshStorage, UsedStorage}
  /\ openaiClient = FALSE
  /\ limiters = << >>
  /\ messageDeliveryService = 0
  /\ automationInterval = 0
  /\ timers = {}
  /\ procs = [p \in Procs |-> IdleProc]
  /\ queue = << >>
  /\ calls = 0
  /\ deliveries = << >>

\* ------------------------------------------------ MessageDeliveryService
\* The operators below transform a world w: the limiters, the store, the
\* delivery log, the pending storage calls and the record pr of the call p
\* that is running.
World(p) ==
  [p |-> p, lim |-> limiters, sto |-> storage, del |-> deliveries,
   que |-> queue, pr |-> procs[p]]

\* this.rateLimiter of the service the call runs on
LimiterOf(w) == w.pr.svc

\* rateLimiter.recordMessageSent(): the counters, then saveStats
DoRecordSent(w) ==
  LET s == RecordMessageSent(w.lim[LimiterOf(w)].stats, now) IN
  [w EXCEPT !.lim[LimiterOf(w)].stats = s, !.sto.messageStats = Some(s),
            !.pr.trace = Append(@, "recordSuccess")]

\* rateLimiter.recordMessageFailed(): the counter, then saveStats
DoRecordFailed(w) ==
  LET s == RecordMessageFailed(w.lim[LimiterOf(w)].stats) IN
  [w EXCEPT !.lim[LimiterOf(w)].stats = s, !.sto.messageStats = Some(s),
            !.pr.trace = Append(@, "recordFailure")]

\* lines 79-105 up to the first await of a storage call.  outcome is what
\* the delivery transport answers: "ok" (true), "fail" (false) or "throw".
Deliver(w, outcome) ==
  LET w1 == [w EXCEPT
               !.del = Append(@, [svc |-> w.pr.svc, to |-> w.pr.profile.id,
                                  at |-> now, ok |-> outcome = "ok"]),
               !.pr.delivered = TRUE]
  IN IF outcome = "ok"
       THEN [DoRecordSent(w1) EXCEPT !.pr.pc = "recorded", !.pr.path = "ok"]
       ELSE [DoRecordFailed(w1) EXCEPT !.pr.pc = "recorded",
                                       !.pr.path = outcome]

\* lines 73-76: the pacing delay, on every path that has a message
Pacing(w, outcome) ==
  IF settings.rateLimit.delayBetweenMessages > 0
    THEN [w EXCEPT !.pr.pc = "delay", !.pr.delayed = TRUE]
    ELSE Deliver(w, outcome)

\* the admission check with a denial counted as a failed send
Admission_Counted(w) ==
  LET c == CanSendMessage(w.lim[LimiterOf(w)].stats, now, settings.rateLimit)
      w1 == [w EXCEPT !.lim[LimiterOf(w)].stats = c.stats]
  IN IF c.allowed
       THEN [w1 EXCEPT !.pr.admitted = TRUE]
       ELSE [DoRecordFailed(w1) EXCEPT !.pr.pc = "done",
                                       !.pr.result = Failure(c.reason)]

\* lines 34-41: the admission check
Admission(w) ==
  LET c == CanSendMessage(w.lim[LimiterOf(w)].stats, now, settings.rateLimit)
      w1 == [w EXCEPT !.lim[LimiterOf(w)].stats = c.stats]
  IN IF c.allowed
       THEN [w1 EXCEPT !.pr.admitted = TRUE]
       ELSE [w1 EXCEPT !.pr.pc = "done", !.pr.result = Failure(c.reason)]

\* sendMessage from the call to its first suspension (or its return);
\* configured is isOpenAIConfigured() at the call.
SendMessage(w, configured, outcome) ==
  LET w1 == Admission(w) IN
  IF ~w1.pr.admitted THEN w1
  ELSE IF Truthy(w1.pr.custom)
    THEN Pacing([w1 EXCEPT !.pr.message = Verbatim(w1.pr.custom)], outcome)
  ELSE IF ~configured
    THEN [w1 EXCEPT !.pr.pc = "done", !.pr.result = Failure(NotConfigured)]
  ELSE [w1 EXCEPT !.pr.pc = "gen", !.pr.genCalled = TRUE]

\* the record of a call of sendMessage(profile, customMessage) on the
\* service svc, which was constructed when the delivery log had born entries
CallRecord(kind, svc, born, profile, customMessage) ==
  [IdleProc EXCEPT !.pc = "call", !.kind = kind, !.svc = svc,
                   !.profile = profile, !.custom = customMessage,
                   !.t0 = now, !.pre = Some(storage),
                   !.n0 = Len(deliveries), !.born = born]

\* templates.push / historyList.push, then shift() beyond the cap
PushCapped(list, x, cap) ==
  LET l == Append(list, x) IN IF Len(l) > cap THEN Tail(l) ELSE l

TemplateOf(pr) ==
  [profileId |-> pr.profile.id, content |-> pr.message,
   success |-> pr.path = "ok",
   error |-> IF pr.path = "ok" THEN "" ELSE SendFailed]

HistoryOf(pr) ==
  [profileId |-> pr.profile.id,
   message |-> IF pr.path = "genfail" THEN NoMessage ELSE pr.message,
   success |-> pr.path = "ok",
   error |-> CASE pr.path = "ok" -> ""
               [] pr.path = "fail" -> SendFailed
               [] pr.path = "throw" -> "error"
               [] OTHER -> "Failed to generate: error"]

\* a stored profile is kept as it is, a new one is pushed
PutProfile_KeepsStored(profiles, profile) ==
  IF \E i \in DOMAIN profiles : profiles[i].id = profile.id
    THEN profiles
    ELSE Append(profiles, profile)

\* profiles[index] = profile, or profiles.push(profile)
PutProfile(profiles, profile) ==
  IF \E i \in DOMAIN profiles : profiles[i].id = profile.id
    THEN LET index == CHOOSE i \in DOMAIN profiles :
                        /\ profiles[i].id = profile.id
                        /\ \A j \in 1..(i - 1) : profiles[j].id # profile.id
         IN [profiles EXCEPT ![index] = profile]
    ELSE Append(profiles, profile)

ReturnOf(pr) ==
  CASE pr.path = "ok" -> Success(pr.message)
    [] pr.path = "fail" -> Failure(SendFailed)
    [] pr.path = "throw" -> Failure(SendError)
    [] OTHER -> Failure(GenerateFailed)

\* What a suspended call does when the storage call it awaits resolves, up
\* to its next suspension.
ResumeStep(w) ==
  LET pr == w.pr IN
  CASE pr.pc = "recorded" /\ pr.path \in {"ok", "fail"} ->
         \* saveMessageTemplate: chrome.storage.local.get issued
         [w EXCEPT !.pr.pc = "tmplGet", !.pr.snap = w.sto.messageTemplates]
    [] pr.pc = "recorded" /\ pr.path \notin {"ok", "fail"} ->
         \* saveMessageHistory: chrome.storage.local.get issued
         [w EXCEPT !.pr.pc = "histGet", !.pr.snap = w.sto.messageHistory]
    [] pr.pc = "tmplGet" ->
         [w EXCEPT !.pr.pc = "tmplSet", !.pr.snap = << >>,
                   !.pr.trace = Append(@, "template"),
                   !.sto.messageTemplates =
                      PushCapped(pr.snap, TemplateOf(pr), TemplateCap)]
    [] pr.pc = "tmplSet" ->
         [w EXCEPT !.pr.pc = "histGet", !.pr.snap = w.sto.messageHistory]
    [] pr.pc = "histGet" ->
         [w EXCEPT !.pr.pc = "histSet", !.pr.snap = << >>,
                   !.pr.trace = Append(@, "history"),
                   !.sto.messageHistory =
                      PushCapped(pr.snap, HistoryOf(pr), HistoryCap)]
    [] pr.pc = "histSet" /\ pr.path = "ok" ->
         \* updateProfileMessageCount: the argument is mutated, get issued
         [w EXCEPT !.pr.pc = "profGet", !.pr.snap = w.sto.profiles,
                   !.pr.profile.messageCount = @ + 1,
                   !.pr.profile.lastMessageSent = Some(now)]
    [] pr.pc = "histSet" /\ pr.path # "ok" ->
         [w EXCEPT !.pr.pc = "done", !.pr.result = ReturnOf(pr)]
    [] pr.pc = "profGet" ->
         [w EXCEPT !.pr.pc = "profSet", !.pr.snap = << >>,
                   !.pr.trace = Append(@, "profile"),
                   !.sto.profiles = PutProfile(pr.snap, pr.profile)]
    [] OTHER ->
         [w EXCEPT !.pr.pc = "done", !.pr.result = ReturnOf(pr)]

\* where a sendMessage call that has not returned can be
SendPcs == {"gen", "delay", "recorded", "tmplGet", "tmplSet", "histGet",
            "histSet", "profGet", "profSet"}

\* where a call waits for the answer of chrome.storage.local
StoragePcs == {"recorded", "tmplGet", "tmplSet", "histGet", "histSet",
               "profGet", "profSet", "cycle", "manual"}

\* chrome.storage.local answers in the order of the calls.  A call p that
\* waits is p in the queue, the loadStats of the limiter l is -l.
Answered(x) == queue # << >> /\ Head(queue) = x

\* the world becomes the next state; every other variable is set by the
\* action that uses it
Commit(w) ==
  /\ queue' = LET q == IF procs[w.p].pc \in StoragePcs
                         THEN Tail(w.que) ELSE w.que
              IN IF w.pr.pc \in StoragePcs THEN Append(q, w.p) ELSE q
  /\ limiters' = w.lim
  /\ storage' = w.sto
  /\ deliveries' = w.del
  /\ procs' = [procs EXCEPT ![w.p] = w.pr]
  /\ calls' = IF procs[w.p].pc \notin SendPcs /\ w.pr.admitted
                THEN calls + 1 ELSE calls

Outcomes == {"ok", "fail", "throw"}

\* generatePersonalizedMessage resolves with text, or rejects
GenDone(p) ==
  /\ procs[p].pc = "gen"
  /\ \E r \in GenTexts \cup {"throw"}, outcome \in Outcomes :
       /\ (settings.rateLimit.delayBetweenMessages > 0 \/ r = "throw")
             => outcome = "ok"
       /\ Commit(IF r = "throw"
                   THEN [DoRecordFailed(World(p)) EXCEPT
                           !.pr.pc = "recorded", !.pr.path = "genfail"]
                   ELSE Pacing([World(p) EXCEPT
                                  !.pr.message = ApplyNameTemplate(r)],
                               outcome))
  /\ UNCHANGED << now, settings, openaiClient,
                  messageDeliveryService, automationInterval, timers,
                  pin, pout >>

\* the timer of this.delay fires
DelayDone(p) ==
  /\ procs[p].pc = "delay"
  /\ \E outcome \in Outcomes : Commit(Deliver(World(p), outcome))
  /\ UNCHANGED << now, settings, openaiClient,
                  messageDeliveryService, automationInterval, timers,
                  pin, pout >>

\* the awaited chrome.storage.local call of a sendMessage resolves
Resume(p) ==
  /\ procs[p].pc \in SendPcs \cap StoragePcs
  /\ Answered(p)
  /\ Commit(ResumeStep(World(p)))
  /\ UNCHANGED << now, settings, openaiClient,
                  messageDeliveryService, automationInterval, timers,
                  pin, pout >>

\* the chrome.storage.local.get of loadStats resolves
LoadComplete(l) ==
  /\ l \in DOMAIN limiters
  /\ limiters[l].loading
  /\ Answered(-l)
  /\ queue' = Tail(queue)
  /\ limiters' = [limiters EXCEPT
                    ![l] = [@ EXCEPT
                              !.stats = LoadStats(@, limiters[l].stored, now),
                              !.loading = FALSE, !.stored = Absent]]
  /\ UNCHANGED << now, settings, storage, openaiClient,
                  messageDeliveryService, automationInterval, timers, procs,
                  calls, deliveries, pin, pout >>

\* new RateLimiter(settings): zeroed stats, loadStats() issued, not awaited.
\* born is a history variable of the service that owns the limiter: the
\* length of the delivery log when the service was constructed.
NewRateLimiter(born) ==
  [stats |-> ZeroStats, loading |-> TRUE, stored |-> storage.messageStats,
   born |-> born]

\* The RateLimiter of a service that neither the global nor a running call
\* refers to is garbage: its state is dropped and its place is used again.
Garbage ==
  [stats |-> ZeroStats, loading |-> FALSE, stored |-> Absent, born |-> 0]

\* the calls that have not returned, and the services they run on
InFlight == { p \in Procs : procs[p].pc \notin {"idle", "done"} }
InUse == { procs[p].svc : p \in InFlight } \ {0}

\* new MessageDeliveryService(settings) replacing the global: the place of
\* the new service, and the services with it
NewPlace ==
  IF \E i \in DOMAIN limiters : i \notin InUse
    THEN CHOOSE i \in DOMAIN limiters :
           i \notin InUse /\ \A j \in 1..(i - 1) : j \in InUse
    ELSE Len(limiters) + 1

NewService ==
  [i \in DOMAIN limiters \cup {NewPlace} |->
     IF i = NewPlace THEN NewRateLimiter(Len(deliveries))
     ELSE IF i \in InUse THEN limiters[i] ELSE Garbage]

\* the pending storage calls with the loadStats of the new service
NewQueue ==
  Append(SelectSeq(queue, LAMBDA x : x > 0 \/ -x \in InUse), -NewPlace)

\* chrome.storage.local has answered every call
Quiet == queue = << >>

Advance ==
  /\ now < MaxTime
  /\ Quiet
  /\ now' = now + 1
  /\ UNCHANGED << settings, storage, openaiClient, limiters,
                  messageDeliveryService, automationInterval, timers, procs,
                  queue, calls, deliveries, pin, pout >>

\* -------------------------------------------- one pipeline, used in turn
\* a slot is free again once its call has returned
FreeSlot(p) ==
  /\ procs[p].pc \in {"idle", "done"}
  /\ \A q \in 1..(p - 1) : procs[q].pc \notin {"idle", "done"}

Stored == { storage.profiles[i] : i \in DOMAIN storage.profiles }

\* new MessageDeliveryService(settings), after initializeOpenAI(apiKey)
\* (background.ts 27-28, 49-50) or without it (background.ts 499)
NewPipeline(withClient) ==
  /\ InFlight = {}
  /\ limiters' = NewService
  /\ queue' = NewQueue
  /\ messageDeliveryService' = NewPlace
  /\ openaiClient' = (openaiClient \/ withClient)
  /\ UNCHANGED << now, settings, storage, automationInterval, timers, procs,
                  calls, deliveries, pin, pout >>

\* await messageDeliveryService.sendMessage(profile, customMessage), called
\* when the previous call has returned
DirectSend(p) ==
  /\ messageDeliveryService # 0
  /\ InFlight = {}
  /\ FreeSlot(p)
  /\ calls < MaxCalls
  /\ \E profile \in Stored, customMessage \in CustomSet, outcome \in Outcomes :
       /\ (~Truthy(customMessage)
             \/ settings.rateLimit.delayBetweenMessages > 0) => outcome = "ok"
       /\ Commit(SendMessage(
            [World(p) EXCEPT
               !.pr = CallRecord("direct", messageDeliveryService,
                                 limiters[messageDeliveryService].born,
                                 profile, customMessage)],
            openaiClient, outcome))
  /\ UNCHANGED << now, settings, openaiClient,
                  messageDeliveryService, automationInterval, timers,
                  pin, pout >>

InitSeq ==
  /\ SysInit
  /\ ~settings.enabled /\ settings.openaiApiKey
  /\ pin = PureIdle /\ pout = PureIdle

NextSeq ==
  \/ \E withClient \in BOOLEAN : NewPipeline(withClient)
  \/ \E p \in Procs : DirectSend(p)
  \/ \E p \in Procs : GenDone(p)
  \/ \E p \in Procs : DelayDone(p)
  \/ \E p \in Procs : Resume(p)
  \/ \E l \in 1..(MaxProcs + 1) : LoadComplete(l)
  \/ Advance

SpecSeq == InitSeq /\ [][NextSeq]_vars

\* -------------------------------------------------- the background worker
\* The events of the worker within one tick of the clock: the default timer
\* period is a minute, a tick is thirty.  Timer ticks, settings changes and
\* popup requests arrive when no storage call is pending.
KeyMissing == "OpenAI API key not configured. Please set it in Settings tab."

\* the scheduler's globals as stopAutomation sees them; cleared counts its
\* clearInterval calls
Sched ==
  [automationInterval |-> automationInterval, timers |-> timers, cleared |-> 0]

\* stopAutomation()
StopAutomation_Unguarded(s) ==
  [automationInterval |-> 0,
   timers |-> { x \in s.timers : x.id # s.automationInterval },
   cleared |-> s.cleared + 1]

StopAutomation(s) ==
  IF s.automationInterval # 0
    THEN [automationInterval |-> 0,
          timers |-> { x \in s.timers : x.id # s.automationInterval },
          cleared |-> s.cleared + 1]
    ELSE s

\* the period of the interval timer: delayBetweenMessages || 60000
IntervalOf_NoFallback(rateLimit) == rateLimit.delayBetweenMessages

IntervalOf(rateLimit) ==
  IF rateLimit.delayBetweenMessages # 0
    THEN rateLimit.delayBetweenMessages
    ELSE FallbackInterval

\* setInterval: the handle of the new timer
NewTimer ==
  CHOOSE t \in 1..(Cardinality(timers) + 1) : \A x \in timers : x.id # t

\* runAutomationCycle up to its first await: getProfiles() is issued
CycleRecord ==
  [IdleProc EXCEPT !.pc = "cycle", !.kind = "auto",
                   !.profiles = storage.profiles]

\* startAutomation(settings) with settings.enabled: stopAutomation, a new
\* service, the interval timer, and the immediate cycle up to its first await
StartAutomation(p) ==
  /\ FreeSlot(p)
  /\ timers' = StopAutomation(Sched).timers
                \cup {[id |-> NewTimer, every |-> IntervalOf(settings.rateLimit)]}
  /\ automationInterval' = NewTimer
  /\ limiters' = NewService
  /\ queue' = Append(NewQueue, p)
  /\ messageDeliveryService' = NewPlace
  /\ procs' = [procs EXCEPT ![p] = CycleRecord]

\* initializeServices, on install and on startup
InitializeServices(p) ==
  /\ messageDeliveryService = 0 /\ ~openaiClient
  /\ timers = {} /\ InFlight = {}
  /\ openaiClient' = settings.openaiApiKey
  /\ IF settings.enabled
       THEN StartAutomation(p)
       ELSE /\ limiters' = IF settings.openaiApiKey THEN NewService
                                                     ELSE limiters
            /\ queue' = IF settings.openaiApiKey THEN NewQueue ELSE queue
            /\ messageDeliveryService' =
                 IF settings.openaiApiKey THEN NewPlace ELSE 0
            /\ UNCHANGED << automationInterval, timers, procs >>
  /\ UNCHANGED << now, settings, storage, calls, deliveries, pin, pout >>

\* chrome.storage.onChanged with automationSettings saved, enabled set
SettingsEnabled(p) ==
  /\ Quiet
  /\ settings' = [settings EXCEPT !.enabled = TRUE]
  /\ StartAutomation(p)
  /\ UNCHANGED << now, storage, openaiClient, calls, deliveries, pin, pout >>

\* chrome.storage.onChanged with automationSettings saved, enabled not set:
\* stopAutomation
SettingsDisabled ==
  /\ Quiet
  /\ settings.enabled \/ automationInterval # 0
  /\ settings' = [settings EXCEPT !.enabled = FALSE]
  /\ timers' = StopAutomation(Sched).timers
  /\ automationInterval' = StopAutomation(Sched).automationInterval
  /\ UNCHANGED << now, storage, openaiClient, limiters,
                  messageDeliveryService, procs, queue, calls, deliveries,
                  pin, pout >>

\* the interval timer fires: runAutomationCycle up to its first await
TimerTick_Unarmed(p) ==
  /\ Quiet
  /\ FreeSlot(p)
  /\ procs' = [procs EXCEPT ![p] = CycleRecord]
  /\ queue' = Append(queue, p)
  /\ UNCHANGED << now, settings, storage, openaiClient, limiters,
                  messageDeliveryService, automationInterval, timers,
                  calls, deliveries, pin, pout >>

TimerTick(p) ==
  /\ timers # {}
  /\ Quiet
  /\ FreeSlot(p)
  /\ procs' = [procs EXCEPT ![p] = CycleRecord]
  /\ queue' = Append(queue, p)
  /\ UNCHANGED << now, settings, storage, openaiClient, limiters,
                  messageDeliveryService, automationInterval, timers,
                  calls, deliveries, pin, pout >>

\* runAutomationCycle from the profiles it read to its return or to the
\* first suspension of sendMessage.  The stored filter settings are the
\* defaults, under which filterProfiles keeps every profile.
CycleContinue_Disarm(p) ==
  /\ procs[p].pc = "cycle"
  /\ Answered(p)
  /\ LET eligibleProfiles ==
           SelectSeq(procs[p].profiles, LAMBDA x : IsEligible(x, now))
     IN IF eligibleProfiles = << >> \/ messageDeliveryService = 0
          THEN /\ procs' = [procs EXCEPT ![p] = IdleProc]
               /\ queue' = Tail(queue)
               /\ UNCHANGED << storage, limiters, calls, deliveries >>
          ELSE /\ calls < MaxCalls
               /\ \E i \in DOMAIN eligibleProfiles :
                    Commit(SendMessage(
                      [World(p) EXCEPT
                         !.pr = CallRecord("auto", messageDeliveryService,
                                   limiters[messageDeliveryService].born,
                                   eligibleProfiles[i], "undefined")],
                      openaiClient, "ok"))
  /\ timers' = IF procs'[p].pc = "done" THEN {} ELSE timers
  /\ UNCHANGED << now, settings, openaiClient, messageDeliveryService,
                  automationInterval, pin, pout >>

CycleContinue(p) ==
  /\ procs[p].pc = "cycle"
  /\ Answered(p)
  /\ LET eligibleProfiles ==
           SelectSeq(procs[p].profiles, LAMBDA x : IsEligible(x, now))
     IN IF eligibleProfiles = << >> \/ messageDeliveryService = 0
          THEN /\ procs' = [procs EXCEPT ![p] = IdleProc]
               /\ queue' = Tail(queue)
               /\ UNCHANGED << storage, limiters, calls, deliveries >>
          ELSE /\ calls < MaxCalls
               /\ \E i \in DOMAIN eligibleProfiles :
                    Commit(SendMessage(
                      [World(p) EXCEPT
                         !.pr = CallRecord("auto", messageDeliveryService,
                                   limiters[messageDeliveryService].born,
                                   eligibleProfiles[i], "undefined")],
                      openaiClient, "ok"))
  /\ UNCHANGED << now, settings, openaiClient, messageDeliveryService,
                  automationInterval, timers, pin, pout >>

\* the popup asks for sendTestMessage(profileData, customMessage) with a
\* profile it has serialized: getAutomationSettings() is issued
SendTestMessage(p) ==
  /\ Quiet
  /\ FreeSlot(p)
  /\ \E profile \in Stored, customMessage \in CustomSet :
       procs' = [procs EXCEPT
                   ![p] = [IdleProc EXCEPT !.pc = "manual", !.kind = "manual",
                                           !.profile =
                                              DeserializeProfile(
                                                SerializeProfile(profile), now),
                                           !.custom = customMessage]]
  /\ queue' = Append(queue, p)
  /\ UNCHANGED << now, settings, storage, openaiClient, limiters,
                  messageDeliveryService, automationInterval, timers,
                  calls, deliveries, pin, pout >>

\* sendTestMessage from the settings it read (lines 40-57) to its return or
\* to the first suspension of sendMessage; updateSettings replaces the
\* rate limiter of the service
TestContinue(p) ==
  /\ procs[p].pc = "manual"
  /\ Answered(p)
  /\ IF ~settings.openaiApiKey
       THEN /\ procs' = [procs EXCEPT
                           ![p] = [IdleProc EXCEPT
                                     !.pc = "done", !.kind = "manual",
                                     !.result = Failure(KeyMissing)]]
            /\ queue' = Tail(queue)
            /\ UNCHANGED << storage, openaiClient, limiters,
                            messageDeliveryService, calls, deliveries >>
       ELSE LET svc == IF messageDeliveryService = 0
                         THEN NewPlace ELSE messageDeliveryService
                lims == IF messageDeliveryService = 0
                          THEN NewService
                          ELSE [limiters EXCEPT
                                  ![svc] = NewRateLimiter(limiters[svc].born)]
                que == IF messageDeliveryService = 0
                         THEN NewQueue
                         ELSE Append(SelectSeq(queue, LAMBDA x : x # -svc),
                                     -svc)
            IN /\ calls < MaxCalls
               /\ messageDeliveryService' = svc
               /\ openaiClient' = (openaiClient \/ messageDeliveryService = 0)
               /\ \E outcome \in Outcomes :
                    /\ (~Truthy(procs[p].custom)
                          \/ settings.rateLimit.delayBetweenMessages > 0)
                         => outcome = "ok"
                    /\ Commit(SendMessage(
                         [World(p) EXCEPT
                            !.lim = lims, !.que = que,
                            !.pr = CallRecord("manual", svc, lims[svc].born,
                                              procs[p].profile,
                                              procs[p].custom)],
                         openaiClient', outcome))
  /\ UNCHANGED << now, settings, automationInterval, timers, pin, pout >>

Init ==
  /\ SysInit
  /\ pin = PureIdle /\ pout = PureIdle

Next ==
  \/ \E p \in Procs : InitializeServices(p)
  \/ \E p \in Procs : SettingsEnabled(p)
  \/ SettingsDisabled
  \/ \E p \in Procs : TimerTick(p)
  \/ \E p \in Procs : CycleContinue(p)
  \/ \E p \in Procs : SendTestMessage(p)
  \/ \E p \in Procs : TestContinue(p)
  \/ \E p \in Procs : GenDone(p)
  \/ \E p \in Procs : DelayDone(p)
  \/ \E p \in Procs : Resume(p)
  \/ \E l \in 1..(MaxProcs + 1) : LoadComplete(l)

Spec == Init /\ [][Next]_vars

\* ---------------------------------------------- the scheduler on its own
\* The worker with the popup closed: the timer, the settings changes and
\* the cycles they start.
NextSched ==
  \/ \E p \in Procs : InitializeServices(p)
  \/ \E p \in Procs : SettingsEnabled(p)
  \/ SettingsDisabled
  \/ \E p \in Procs : TimerTick(p)
  \/ \E p \in Procs : CycleContinue(p)
  \/ \E p \in Procs : GenDone(p)
  \/ \E p \in Procs : DelayDone(p)
  \/ \E p \in Procs : Resume(p)
  \/ \E l \in 1..(MaxProcs + 1) : LoadComplete(l)

SpecSched == Init /\ [][NextSched]_vars

\* The scheduler with every pending step taken in the end: storage
\* answers, the generator resolves or rejects, the pacing timer fires.  A
\* cycle starts only while the bound on the calls leaves room for its send.
Budget ==
  calls + Cardinality({ q \in Procs : procs[q].pc = "cycle" }) < MaxCalls

NextLive ==
  \/ \E p \in Procs : Budget /\ InitializeServices(p)
  \/ \E p \in Procs : Budget /\ SettingsEnabled(p)
  \/ SettingsDisabled
  \/ \E p \in Procs : Budget /\ TimerTick(p)
  \/ \E p \in Procs : CycleContinue(p)
  \/ \E p \in Procs : GenDone(p)
  \/ \E p \in Procs : DelayDone(p)
  \/ \E p \in Procs : Resume(p)
  \/ \E l \in 1..(MaxProcs + 1) : LoadComplete(l)

Fairness ==
  /\ \A p \in Procs :
       /\ WF_vars(CycleContinue(p))
       /\ WF_vars(GenDone(p))
       /\ WF_vars(DelayDone(p))
       /\ WF_vars(Resume(p))
  /\ \A l \in 1..(MaxProcs + 1) : WF_vars(LoadComplete(l))

SpecLive == Init /\ [][NextLive]_vars /\ Fairness

\* The interval timer keeps firing while it is armed: a tick that can start
\* a cycle does start one in the end.
TickFairness ==
  \A p \in Procs : WF_vars(Budget /\ TimerTick(p))

SpecProgress == Init /\ [][NextLive]_vars /\ Fairness /\ TickFairness

\* ------------------------------------------------- the store of profiles
\* the content script has extracted the profile of the page, the worker
\* gets "profileExtracted": handleProfileExtracted up to the first await of
\* saveProfile, getProfiles() is issued
ProfileExtracted(p) ==
  /\ Quiet
  /\ FreeSlot(p)
  /\ \E id \in 1..NProfiles :
       procs' = [procs EXCEPT
                   ![p] = [IdleProc EXCEPT
                             !.pc = "acqGet", !.kind = "acquire",
                             !.profile = DeserializeProfile(
                                           SerializeProfile(
                                             [NewProfile(id) EXCEPT
                                                !.collectedAt = now]), now),
                             !.snap = storage.profiles]]
  /\ queue' = Append(queue, p)
  /\ UNCHANGED << now, settings, storage, openaiClient, limiters,
                  messageDeliveryService, automationInterval, timers,
                  calls, deliveries, pin, pout >>

\* saveProfile from the profiles it read to the set it awaits, and from
\* the answer of the set to its return
SaveProfileContinue(p) ==
  /\ procs[p].pc \in {"acqGet", "acqSet"}
  /\ Answered(p)
  /\ IF procs[p].pc = "acqGet"
       THEN /\ storage' = [storage EXCEPT
                              !.profiles = PutProfile(procs[p].snap,
                                                      procs[p].profile)]
            /\ procs' = [procs EXCEPT ![p].pc = "acqSet", ![p].snap = << >>]
            /\ queue' = Append(Tail(queue), p)
       ELSE /\ procs' = [procs EXCEPT ![p] = IdleProc]
            /\ queue' = Tail(queue)
            /\ UNCHANGED storage
  /\ UNCHANGED << now, settings, openaiClient, limiters,
                  messageDeliveryService, automationInterval, timers,
                  calls, deliveries, pin, pout >>

\* the popup's reset: clearAllData(), chrome.storage.local.clear()
ClearAllData ==
  /\ Quiet
  /\ storage # EmptyStorage
  /\ storage' = EmptyStorage
  /\ UNCHANGED << now, settings, openaiClient, limiters,
                  messageDeliveryService, automationInterval, timers, procs,
                  queue, calls, deliveries, pin, pout >>

\* One pipeline used in turn, with the profiles of visited pages arriving
\* and the store reset from the popup, within one tick of the clock.
NextStore ==
  \/ \E withClient \in BOOLEAN : NewPipeline(withClient)
  \/ \E p \in Procs : DirectSend(p)
  \/ \E p \in Procs : GenDone(p)
  \/ \E p \in Procs : DelayDone(p)
  \/ \E p \in Procs : Resume(p)
  \/ \E l \in 1..(MaxProcs + 1) : LoadComplete(l)
  \/ \E p \in Procs : ProfileExtracted(p)
  \/ \E p \in Procs : SaveProfileContinue(p)
  \/ ClearAllData

SpecStore == InitSeq /\ [][NextStore]_vars

\* ------------------------------------------ the rate limiter, called directly
\* One caller uses the RateLimiter of the current service and awaits each
\* call.  pout keeps the history of its calls: the last call, its result,
\* its time, and the times of the recordMessageSent calls since the stats
\* were last reset.
LedgerCaller == 1
LedgerIdle == [op |-> "none", result |-> ZeroStats, at |-> 0, sent |-> << >>]

\* the caller is not waiting for saveStats
LedgerReady ==
  /\ messageDeliveryService # 0
  /\ procs[LedgerCaller].pc = "idle"

\* this.stats becomes stats; with save, saveStats() is issued and awaited
LedgerWrite(stats, save) ==
  /\ limiters' = [limiters EXCEPT ![messageDeliveryService].stats = stats]
  /\ IF save
       THEN /\ storage' = [storage EXCEPT !.messageStats = Some(stats)]
            /\ queue' = Append(queue, LedgerCaller)
            /\ procs' = [procs EXCEPT ![LedgerCaller].pc = "save"]
       ELSE UNCHANGED << storage, queue, procs >>
  /\ UNCHANGED << now, settings, openaiClient, messageDeliveryService,
                  automationInterval, timers, deliveries, pin >>

\* await rateLimiter.recordMessageSent()
LedgerRecordSent ==
  /\ LedgerReady
  /\ calls < MaxCalls
  /\ calls' = calls + 1
  /\ LET stats == RecordMessageSent(limiters[messageDeliveryService].stats, now)
     IN /\ LedgerWrite(stats, TRUE)
        /\ pout' = [op |-> "recordMessageSent", result |-> stats, at |-> now,
                    sent |-> Append(pout.sent, now)]

\* await rateLimiter.recordMessageFailed()
LedgerRecordFailed ==
  /\ LedgerReady
  /\ calls < MaxCalls
  /\ calls' = calls + 1
  /\ LET stats == RecordMessageFailed(limiters[messageDeliveryService].stats)
     IN /\ LedgerWrite(stats, TRUE)
        /\ pout' = [pout EXCEPT !.op = "recordMessageFailed",
                                !.result = stats, !.at = now]

\* rateLimiter.getStats()
LedgerGetStats ==
  /\ LedgerReady
  /\ LET stats ==
           UpdateTimeBasedCounts(limiters[messageDeliveryService].stats, now)
     IN /\ LedgerWrite(stats, FALSE)
        /\ pout' = [pout EXCEPT !.op = "getStats", !.result = stats,
                                !.at = now]
  /\ UNCHANGED calls

\* await rateLimiter.canSendMessage()
LedgerCanSend ==
  /\ LedgerReady
  /\ LET r == CanSendMessage(limiters[messageDeliveryService].stats, now,
                             settings.rateLimit)
     IN /\ LedgerWrite(r.stats, FALSE)
        /\ pout' = [pout EXCEPT !.op = "canSendMessage", !.result = r,
                                !.at = now]
  /\ UNCHANGED calls

\* await rateLimiter.resetStats()
LedgerReset ==
  /\ LedgerReady
  /\ LedgerWrite(ZeroStats, TRUE)
  /\ pout' = [op |-> "resetStats", result |-> ZeroStats, at |-> now,
              sent |-> << >>]
  /\ UNCHANGED calls

\* chrome.storage.local.set of saveStats resolves
LedgerSaved ==
  /\ procs[LedgerCaller].pc = "save"
  /\ Answered(LedgerCaller)
  /\ queue' = Tail(queue)
  /\ procs' = [procs EXCEPT ![LedgerCaller].pc = "idle"]
  /\ UNCHANGED << now, settings, storage, openaiClient, limiters,
                  messageDeliveryService, automationInterval, timers, calls,
                  deliveries, pin, pout >>

InitLedger ==
  /\ SysInit
  /\ ~settings.enabled /\ settings.openaiApiKey
  /\ storage = FreshStorage
  /\ pin = PureIdle /\ pout = LedgerIdle

NextLedger ==
  \/ NewPipeline(FALSE)
  \/ \E l \in 1..(MaxProcs + 1) : LoadComplete(l)
  \/ LedgerRecordSent
  \/ LedgerRecordFailed
  \/ LedgerGetStats
  \/ LedgerCanSend
  \/ LedgerReset
  \/ LedgerSaved
  \/ Advance

SpecLedger == InitLedger /\ [][NextLedger]_vars

\* ------------------------------------------- the pure functions, applied
PureNows == {CooldownDays * Day + 1, CooldownDays * Day + 2}

\* -------------------------------------------------------------- filters
\* if (x) on an optional number: undefined and 0 are falsy
TruthyNumber(x) == IsSet(x) /\ Val(x) # 0

\* filters.xs && filters.xs.length > 0
NonEmptyList(xs) == IsSet(xs) /\ Val(xs) # {}

CategorizeAgeGroup(age) ==
  IF ~TruthyNumber(age) THEN "unknown"
  ELSE IF Val(age) >= 18 /\ Val(age) <= 25 THEN "18-25"
  ELSE IF Val(age) >= 26 /\ Val(age) <= 35 THEN "26-35"
  ELSE IF Val(age) >= 36 /\ Val(age) <= 45 THEN "36-45"
  ELSE IF Val(age) >= 46 /\ Val(age) <= 55 THEN "46-55"
  ELSE IF Val(age) >= 56 THEN "56+"
  ELSE "unknown"

\* matchesFilters with every() in place of some() on the interests
MatchesFilters_EveryInterest(profile, filters) ==
  IF /\ NonEmptyList(filters.countries)
     /\ \/ ~IsSet(profile.country)
        \/ Val(profile.country) \notin Val(filters.countries)
    THEN FALSE
  ELSE IF /\ NonEmptyList(filters.ageGroups)
          /\ (IF IsSet(profile.ageGroup) THEN Val(profile.ageGroup)
              ELSE CategorizeAgeGroup(profile.age))
               \notin Val(filters.ageGroups)
    THEN FALSE
  ELSE IF /\ TruthyNumber(profile.age)
          /\ TruthyNumber(filters.minAge)
          /\ Val(profile.age) < Val(filters.minAge)
    THEN FALSE
  ELSE IF /\ TruthyNumber(profile.age)
          /\ TruthyNumber(filters.maxAge)
          /\ Val(profile.age) > Val(filters.maxAge)
    THEN FALSE
  ELSE IF /\ NonEmptyList(filters.interests)
          /\ \/ ~IsSet(profile.interests)
             \/ Val(profile.interests) = {}
             \/ ~(\A interest \in Val(profile.interests) :
                    interest \in Val(filters.interests))
    THEN FALSE
  ELSE TRUE

\* matchesFilters: each test returns false when it fails
MatchesFilters(profile, filters) ==
  IF /\ NonEmptyList(filters.countries)
     /\ \/ ~IsSet(profile.country)
        \/ Val(profile.country) \notin Val(filters.countries)
    THEN FALSE
  ELSE IF /\ NonEmptyList(filters.ageGroups)
          /\ (IF IsSet(profile.ageGroup) THEN Val(profile.ageGroup)
              ELSE CategorizeAgeGroup(profile.age))
               \notin Val(filters.ageGroups)
    THEN FALSE
  ELSE IF /\ TruthyNumber(profile.age)
          /\ TruthyNumber(filters.minAge)
          /\ Val(profile.age) < Val(filters.minAge)
    THEN FALSE
  ELSE IF /\ TruthyNumber(profile.age)
          /\ TruthyNumber(filters.maxAge)
          /\ Val(profile.age) > Val(filters.maxAge)
    THEN FALSE
  ELSE IF /\ NonEmptyList(filters.interests)
          /\ \/ ~IsSet(profile.interests)
             \/ Val(profile.interests) = {}
             \/ ~(\E interest \in Val(profile.interests) :
                    interest \in Val(filters.interests))
    THEN FALSE
  ELSE TRUE

\* profiles.filter(...): the matching profiles in the order of the array
RECURSIVE FilterProfiles(_, _)
FilterProfiles(profiles, filters) ==
  IF profiles = << >> THEN << >>
  ELSE LET rest == FilterProfiles(Tail(profiles), filters)
       IN IF MatchesFilters(Head(profiles), filters)
            THEN << Head(profiles) >> \o rest
            ELSE rest

\* DEFAULT_FILTERS
DefaultFilters ==
  [countries |-> Some({}), ageGroups |-> Some({}), interests |-> Some({}),
   minAge |-> Absent, maxAge |-> Absent]

\* a profile as extractProfileFromPage builds it from a page
Extracted(id, country, age, interests) ==
  [id |-> id, country |-> country, age |-> age,
   ageGroup |-> Some(CategorizeAgeGroup(age)), interests |-> interests]

\* profiles to filter: extracted ones, and ones that reached the worker
\* without an age group or without interests
FilterPool ==
  << Extracted(1, Some("US"), Some(20), Some({"ai"})),
     Extracted(2, Some("DE"), Some(30), Some({"web"})),
     Extracted(3, Absent, Absent, Some({})),
     [Extracted(4, Some("US"), Absent, Absent) EXCEPT !.ageGroup = Absent],
     [Extracted(5, Some("DE"), Some(20), Some({"ai", "web"}))
        EXCEPT !.ageGroup = Absent] >>

RECURSIVE SeqsUpTo(_, _)
SeqsUpTo(S, n) ==
  IF n = 0 THEN { << >> }
  ELSE LET shorter == SeqsUpTo(S, n - 1)
       IN shorter \cup { Append(q, x) : q \in shorter, x \in S }

PureRecipients ==
  { [i \in DOMAIN q |-> FilterPool[q[i]]]
      : q \in SeqsUpTo(DOMAIN FilterPool, MaxRecipients) }

PureFilters ==
  [countries : {Absent, Some({}), Some({"US"})},
   ageGroups : {Some({}), Some({"18-25"}), Some({"unknown"})},
   interests : {Some({}), Some({"ai"})},
   minAge : {Absent, Some(25)},
   maxAge : {Absent, Some(0), Some(25)}]

PureStats ==
  { ZeroStats } \cup
  { [totalSent |-> IF d > h THEN d ELSE h, totalFailed |-> 0,
     messagesToday |-> d, messagesThisHour |-> h, lastSentAt |-> Some(l)]
      : d \in 0..MaxCount, h \in 0..MaxCount,
        l \in (CooldownDays * Day - Hour)..(CooldownDays * Day + 1) }

PureRateLimits ==
  [messagesPerHour : 0..MaxCount, messagesPerDay : 0..MaxCount,
   delayBetweenMessages : {0}]

\* never contacted, contacted 3 days ago, and around the cooldown
PureProfiles ==
  { [id |-> 1, collectedAt |-> a, messageCount |-> c, lastMessageSent |-> l]
      : a \in {0, 1}, c \in 0..MaxCount,
        l \in {Absent} \cup
              { Some(x) : x \in {0, 1, 2, 3, 4 * Day + 1, CooldownDays * Day} } }

\* the scheduler stopped, and running on its first or second timer
PureScheds ==
  { [automationInterval |-> 0, timers |-> {}, cleared |-> 0] } \cup
  { [automationInterval |-> h, timers |-> {[id |-> h, every |-> e]},
     cleared |-> 0] : h \in 1..MaxProcs, e \in {FallbackInterval, DefaultDelay} }

PureInputs ==
  [stats : PureStats, now : PureNows, rateLimit : PureRateLimits,
   profile : {NewProfile(1)},
   sched : {[automationInterval |-> 0, timers |-> {}, cleared |-> 0]},
   recipients : {<< >>}, filters : {DefaultFilters}]
  \cup
  [stats : {ZeroStats}, now : PureNows,
   rateLimit : {[messagesPerHour |-> 1, messagesPerDay |-> 1,
                 delayBetweenMessages |-> 0]},
   profile : PureProfiles,
   sched : {[automationInterval |-> 0, timers |-> {}, cleared |-> 0]},
   recipients : {<< >>}, filters : {DefaultFilters}]
  \cup
  [stats : {ZeroStats}, now : PureNows,
   rateLimit : {[messagesPerHour |-> 1, messagesPerDay |-> 1,
                 delayBetweenMessages |-> 0]},
   profile : {NewProfile(1)},
   sched : PureScheds,
   recipients : {<< >>}, filters : {DefaultFilters}]
  \cup
  [stats : {ZeroStats}, now : {StartTime},
   rateLimit : {[messagesPerHour |-> 1, messagesPerDay |-> 1,
                 delayBetweenMessages |-> 0]},
   profile : {NewProfile(1)},
   sched : {[automationInterval |-> 0, timers |-> {}, cleared |-> 0]},
   recipients : PureRecipients, filters : PureFilters]

InitPure ==
  /\ SysInit
  /\ ~settings.enabled /\ settings.openaiApiKey
  /\ settings.rateLimit.messagesPerHour = 1
  /\ settings.rateLimit.delayBetweenMessages = 0
  /\ storage = FreshStorage
  /\ pin \in PureInputs
  /\ pout = PureIdle

\* rateLimiter.canSendMessage() on the stats, the policy and the time of pin
EvalCanSendMessage ==
  /\ pout' = [op |-> "canSendMessage",
              result |-> CanSendMessage(pin.stats, pin.now, pin.rateLimit)]
  /\ UNCHANGED << sysvars, pin >>

\* the filter callback of runAutomationCycle on the profile and time of pin
EvalIsEligible ==
  /\ pout' = [op |-> "isEligible", result |-> IsEligible(pin.profile, pin.now)]
  /\ UNCHANGED << sysvars, pin >>

\* stopAutomation() called twice in a row on the scheduler of pin
EvalStopTwice ==
  /\ pout' = [op |-> "stopTwice",
              result |-> [first |-> StopAutomation(pin.sched),
                          second |-> StopAutomation(StopAutomation(pin.sched))]]
  /\ UNCHANGED << sysvars, pin >>

\* canSendMessage() on the stats, the policy and the time of pin and, when
\* it denies, once more after the waitTime it returned
EvalRetry ==
  /\ LET first == CanSendMessage(pin.stats, pin.now, pin.rateLimit)
     IN pout' = [op |-> "retry",
                 result |-> [first |-> first,
                             second |->
                               IF first.allowed THEN first
                               ELSE CanSendMessage(
                                      first.stats,
                                      pin.now + Val(first.waitTime),
                                      pin.rateLimit)]]
  /\ UNCHANGED << sysvars, pin >>

\* the profile of pin through serializeProfile, the message channel and
\* deserializeProfile
EvalRoundTrip ==
  /\ pout' = [op |-> "roundTrip",
              result |-> DeserializeProfile(SerializeProfile(pin.profile),
                                            pin.now)]
  /\ UNCHANGED << sysvars, pin >>

\* filterProfiles on the profiles and the filter settings of pin
EvalFilterProfiles ==
  /\ pout' = [op |-> "filterProfiles",
              result |-> FilterProfiles(pin.recipients, pin.filters)]
  /\ UNCHANGED << sysvars, pin >>

NextPure ==
  \/ EvalCanSendMessage \/ EvalIsEligible \/ EvalStopTwice \/ EvalRetry
  \/ EvalRoundTrip \/ EvalFilterProfiles

SpecPure == InitPure /\ [][NextPure]_vars

\* ------------------------------------------------------------- the claims
\* getMessageStats(): the stored ledger, zeroes when nothing is stored
Persisted(sto) ==
  IF IsSet(sto.messageStats) THEN Val(sto.messageStats) ELSE ZeroStats

\* the store at the call of p, and its ledger rolled over at that time
PreOf(p) == Val(procs[p].pre)
PreStats(p) == UpdateTimeBasedCounts(Persisted(PreOf(p)), procs[p].t0)

Called(p) == procs[p].pc # "idle"
Returned(p) == procs[p].pc = "done"

\* the stored profile with the id of the one p was called with
StoredProfile(sto, p) ==
  { sto.profiles[i] : i \in { j \in DOMAIN sto.profiles :
                                sto.profiles[j].id = procs[p].profile.id } }

\* successful deliveries of p's service before the call of p, less than an
\* hour before it / on the day of it
SentInHourBefore(p) ==
  Cardinality({ i \in (procs[p].born + 1)..procs[p].n0 :
                  /\ deliveries[i].ok
                  /\ deliveries[i].svc = procs[p].svc
                  /\ procs[p].t0 - deliveries[i].at < Hour })

SentInDayBefore(p) ==
  Cardinality({ i \in 1..procs[p].n0 :
                  /\ deliveries[i].ok
                  /\ DayOf(deliveries[i].at) = DayOf(procs[p].t0) })

\* C1: once messagesPerHour sends of a pipeline have succeeded less than an
\* hour ago, its next send is denied and delivers nothing; the reason is
\* the hourly one while the day's cap is not reached as well.
C1_HourlyDenial ==
  \A p \in Procs :
    (Called(p) /\ SentInHourBefore(p) >= settings.rateLimit.messagesPerHour)
      => /\ ~procs[p].admitted
         /\ ~procs[p].delivered
         /\ Returned(p) /\ ~procs[p].result.success
         /\ (SentInDayBefore(p) < settings.rateLimit.messagesPerDay
               => procs[p].result.error = HourlyReason)

\* the step in which a call of sendMessage returns at the admission check
DeniedStep(p) ==
  /\ procs'[p] # procs[p]
  /\ procs'[p].pc = "done"
  /\ ~procs'[p].admitted

\* C4: a send that is denied admission returns the limiter's reason and
\* changes nothing: the ledger's totals, the history, the templates and
\* the profiles are as before, nothing was generated or delivered.
C4_DeniedChangesNothing ==
  [][\A p \in Procs :
       DeniedStep(p) =>
         /\ ~procs'[p].result.success
         /\ procs'[p].result.error \in {DailyReason, HourlyReason}
         /\ storage' = storage
         /\ deliveries' = deliveries
         /\ ~procs'[p].genCalled /\ ~procs'[p].delivered
         /\ \A l \in DOMAIN limiters :
              /\ limiters'[l].stats.totalSent = limiters[l].stats.totalSent
              /\ limiters'[l].stats.totalFailed = limiters[l].stats.totalFailed
    ]_vars

\* a send was denied, with a ledger that has something to lose
C4_Witness ==
  \E p \in Procs :
    /\ Returned(p) /\ ~procs[p].admitted
    /\ procs[p].result.error = HourlyReason
    /\ Persisted(storage).totalSent > 0

\* C5 as stated: when the generator fails the send fails, totalFailed grows
\* by one, totalSent and the hour and day counts stay, the recipient is
\* untouched and nothing is delivered.
C5_GenerationFailure ==
  \A p \in Procs :
    (Returned(p) /\ procs[p].path = "genfail") =>
      /\ ~procs[p].result.success
      /\ ~procs[p].delivered
      /\ Persisted(storage).totalFailed = PreStats(p).totalFailed + 1
      /\ Persisted(storage).totalSent = PreStats(p).totalSent
      /\ Persisted(storage).messagesThisHour = PreStats(p).messagesThisHour
      /\ Persisted(storage).messagesToday = PreStats(p).messagesToday
      /\ storage.profiles = PreOf(p).profiles

\* C6 as stated: with override content the generator is not invoked, the
\* pacing delay is not executed and the text is delivered as supplied.
C6_OverrideSkipsPacing ==
  \A p \in Procs :
    (Called(p) /\ Truthy(procs[p].custom)) =>
      /\ ~procs[p].genCalled
      /\ ~procs[p].delayed
      /\ procs[p].delivered =>
           procs[p].message =
             [salutation |-> "", body |-> procs[p].custom, closing |-> ""]

\* C6 amended: with (non-empty) override content the generator is not
\* invoked and the text is delivered as supplied; the pacing delay is
\* executed exactly when delayBetweenMessages > 0, as on the generated path.
C6_OverrideVerbatim ==
  \A p \in Procs :
    (Called(p) /\ Truthy(procs[p].custom)) =>
      /\ ~procs[p].genCalled
      /\ procs[p].admitted =>
           (procs[p].delayed <=> settings.rateLimit.delayBetweenMessages > 0)
      /\ procs[p].delivered =>
           procs[p].message =
             [salutation |-> "", body |-> procs[p].custom, closing |-> ""]

\* an override text went through the pacing delay and was delivered
C6_Witness ==
  \E p \in Procs :
    /\ Truthy(procs[p].custom)
    /\ procs[p].delayed /\ procs[p].delivered /\ Returned(p)

\* C7 as stated: a delivered send records the success in the ledger, then
\* appends one history record, then updates and stores the recipient, each
\* once, and returns the delivered text; totalFailed stays.
C7_SuccessEffects ==
  \A p \in Procs :
    (Returned(p) /\ procs[p].result.success) =>
      LET post == Persisted(storage) IN
      /\ post.totalSent = PreStats(p).totalSent + 1
      /\ post.messagesToday = PreStats(p).messagesToday + 1
      /\ post.messagesThisHour = PreStats(p).messagesThisHour + 1
      /\ post.totalFailed = PreStats(p).totalFailed
      /\ IsSet(post.lastSentAt) /\ Val(post.lastSentAt) >= procs[p].t0
      /\ storage.messageHistory =
           Append(PreOf(p).messageHistory,
                  [profileId |-> procs[p].profile.id,
                   message |-> procs[p].message,
                   success |-> TRUE, error |-> ""])
      /\ \A r \in StoredProfile(PreOf(p), p) :
           StoredProfile(storage, p) =
             { [r EXCEPT !.messageCount = @ + 1,
                         !.lastMessageSent = post.lastSentAt] }
      /\ procs[p].result.message = procs[p].message
      /\ procs[p].trace = << "recordSuccess", "template", "history", "profile" >>

\* C8 as stated: when the transport fails the send fails with an error,
\* totalFailed grows by one, one failed history record is appended, and
\* totalSent, the hour and day counts, lastSentAt and the recipient stay.
C8_DeliveryFailure ==
  \A p \in Procs :
    (Returned(p) /\ procs[p].path \in {"fail", "throw"}) =>
      LET post == Persisted(storage) IN
      /\ ~procs[p].result.success /\ procs[p].result.error # ""
      /\ post.totalFailed = PreStats(p).totalFailed + 1
      /\ post.totalSent = PreStats(p).totalSent
      /\ post.messagesToday = PreStats(p).messagesToday
      /\ post.messagesThisHour = PreStats(p).messagesThisHour
      /\ post.lastSentAt = PreStats(p).lastSentAt
      /\ Len(storage.messageHistory) = Len(PreOf(p).messageHistory) + 1
      /\ SubSeq(storage.messageHistory, 1, Len(PreOf(p).messageHistory))
           = PreOf(p).messageHistory
      /\ ~storage.messageHistory[Len(storage.messageHistory)].success
      /\ storage.profiles = PreOf(p).profiles

\* C9 as stated: a send is decided on the persisted counters rolled over
\* at the call, also the first one of a newly constructed pipeline: with
\* the persisted day or hour count at its cap the send is denied.
C9_ResumesAfterRestart ==
  \A p \in Procs :
    (Called(p) /\ (\/ PreStats(p).messagesToday
                        >= settings.rateLimit.messagesPerDay
                   \/ PreStats(p).messagesThisHour
                        >= settings.rateLimit.messagesPerHour))
      => ~procs[p].admitted

\* the sendMessage calls of automation cycles that have not returned
AutoSending ==
  { p \in Procs : procs[p].kind = "auto" /\ procs[p].pc \in SendPcs }

\* C3: at most one sendMessage started by an automation cycle is in flight,
\* also while one is suspended in content generation or in the pacing delay.
C3_OneAutoSendInFlight == Cardinality(AutoSending) <= 1

\* C2: canSendMessage denies with the daily reason whenever the day count
\* (rolled over) has reached messagesPerDay, whatever the hour count, and
\* allows exactly when both counts are below their caps.
C2_DailyBeforeHourly ==
  pout.op = "canSendMessage" =>
    LET s == UpdateTimeBasedCounts(pin.stats, pin.now)
        overDay == s.messagesToday >= pin.rateLimit.messagesPerDay
        overHour == s.messagesThisHour >= pin.rateLimit.messagesPerHour
    IN /\ overDay => (~pout.result.allowed /\ pout.result.reason = DailyReason)
       /\ pout.result.allowed <=> (~overDay /\ ~overHour)
       /\ (~overDay /\ overHour) => pout.result.reason = HourlyReason

\* both caps reached by sends of this hour and day; the reason is the daily one
C2_Witness ==
  /\ pout.op = "canSendMessage"
  /\ pin.rateLimit.messagesPerDay > 0 /\ pin.rateLimit.messagesPerHour > 0
  /\ LET s == UpdateTimeBasedCounts(pin.stats, pin.now)
     IN /\ s.messagesToday >= pin.rateLimit.messagesPerDay
        /\ s.messagesThisHour >= pin.rateLimit.messagesPerHour
  /\ pout.result.reason = DailyReason

\* C10: a profile is eligible when it was never messaged or has no
\* lastMessageSent, not eligible when messaged less than 7 days ago, and
\* eligible from exactly 7 days on.
C10_Eligibility ==
  pout.op = "isEligible" =>
    LET pr == pin.profile
        age == pin.now - Val(pr.lastMessageSent)
    IN /\ (pr.messageCount = 0 \/ ~IsSet(pr.lastMessageSent)) => pout.result
       /\ (pr.messageCount > 0 /\ IsSet(pr.lastMessageSent)
             /\ age < 7 * Day) => ~pout.result
       /\ (IsSet(pr.lastMessageSent) /\ age >= 7 * Day) => pout.result

\* a messaged profile exactly 7 days after its last message is eligible
C10_Witness ==
  /\ pout.op = "isEligible"
  /\ pin.profile.messageCount > 0
  /\ IsSet(pin.profile.lastMessageSent)
  /\ pin.now - Val(pin.profile.lastMessageSent) = 7 * Day
  /\ pout.result

\* a step of startAutomation that arms the timer
StartStep == automationInterval' # 0 /\ automationInterval' # automationInterval

\* C11: at most one interval timer is armed at any time; startAutomation
\* clears the timer it finds and leaves exactly one, the one whose handle it
\* keeps, with the period delayBetweenMessages, or the fallback when that is
\* zero, and it starts a cycle at once.
C11_OneTimerArmed ==
  [][/\ Cardinality(timers') <= 1
     /\ StartStep =>
          /\ timers' =
               {[id |-> automationInterval',
                 every |-> IF settings'.rateLimit.delayBetweenMessages > 0
                             THEN settings'.rateLimit.delayBetweenMessages
                             ELSE FallbackInterval]}
          /\ \E p \in Procs :
               procs[p].pc # "cycle" /\ procs'[p].pc = "cycle"
    ]_vars

\* automation was started again while a timer was armed, with no delay set
C11_Witness ==
  /\ automationInterval = 2
  /\ timers = {[id |-> 2, every |-> FallbackInterval]}
  /\ settings.rateLimit.delayBetweenMessages = 0


\* C12: stopAutomation called twice in a row leaves no handle and no timer
\* armed and has cleared one timer in all when a timer was armed, none when
\* none was; the second call, like any call with no handle kept, changes
\* nothing.
C12_StopIdempotent ==
  pout.op = "stopTwice" =>
    LET first == pout.result.first
        second == pout.result.second
        running == pin.sched.automationInterval # 0
    IN /\ second.automationInterval = 0
       /\ second.timers = {}
       /\ second.cleared = IF running THEN 1 ELSE 0
       /\ second = first
       /\ ~running => first = pin.sched

\* stopAutomation was called twice with a timer armed
C12_Witness ==
  /\ pout.op = "stopTwice"
  /\ pin.sched.automationInterval # 0 /\ pin.sched.timers # {}
  /\ pout.result.second.cleared = 1


\* a step of stopAutomation that clears the timer
StopStep == automationInterval # 0 /\ automationInterval' = 0

\* the step in which p enters runAutomationCycle
CycleStarts(p) == procs[p].pc # "cycle" /\ procs'[p].pc = "cycle"

\* sendMessage of p has returned after every write of its branch
Terminal(p) ==
  /\ procs[p].pc = "done"
  /\ procs[p].trace =
       CASE procs[p].path = "ok" ->
              << "recordSuccess", "template", "history", "profile" >>
         [] procs[p].path = "fail" ->
              << "recordFailure", "template", "history" >>
         [] OTHER -> << "recordFailure", "history" >>

\* C13: with no timer handle kept, a cycle starts only in a step of
\* startAutomation; stopAutomation leaves the calls in flight, the storage
\* and the limiters as they are; and a sendMessage of a cycle that is in
\* flight while automation is stopped returns in the end, with every write
\* of its branch made.
C13_StopKeepsInFlight ==
  /\ [][\A p \in Procs :
          CycleStarts(p) => (automationInterval # 0 \/ StartStep)]_vars
  /\ [][StopStep =>
          /\ procs' = procs /\ queue' = queue
          /\ storage' = storage /\ limiters' = limiters]_vars
  /\ \A p \in Procs :
       (automationInterval = 0 /\ p \in AutoSending) ~> Terminal(p)

\* automation is stopped while a send of a cycle waits for its generator
C13_Witness ==
  /\ automationInterval = 0 /\ timers = {}
  /\ \E p \in AutoSending : procs[p].pc = "gen"


\* the step in which the sendMessage of a cycle returns a failure
CycleFails(p) ==
  /\ procs[p].kind = "auto" /\ procs[p].pc # "done"
  /\ procs'[p].pc = "done" /\ ~procs'[p].result.success

\* C14: the timer and its handle change only in steps of startAutomation
\* and stopAutomation; a cycle whose send fails leaves the armed timer
\* armed, and a tick of an armed timer can start a cycle whenever storage
\* is quiet and a call slot is free.
C14_FailureKeepsTimer ==
  /\ [][(timers' # timers \/ automationInterval' # automationInterval)
          => (StartStep \/ StopStep)]_vars
  /\ [][\A p \in Procs :
          (CycleFails(p) /\ automationInterval # 0) =>
            /\ automationInterval' = automationInterval
            /\ \E x \in timers' : x.id = automationInterval']_vars
  /\ []((automationInterval # 0 /\ Quiet
           /\ \E p \in Procs : procs[p].pc \in {"idle", "done"})
          => ENABLED (\E p \in Procs : TimerTick(p)))

\* a cycle has started on the timer after the send of another cycle failed
C14_Witness ==
  /\ automationInterval # 0
  /\ \E p, q \in Procs :
       /\ procs[p].kind = "auto" /\ Returned(p) /\ ~procs[p].result.success
       /\ procs[p].result.error = GenerateFailed
       /\ procs[q].pc = "cycle"


\* the recordMessageSent calls at the times of sent, the last first, that
\* no gap of an hour or more separates from the time t
RECURSIVE SentSinceBoundary(_, _)
SentSinceBoundary(sent, t) ==
  IF sent = << >> THEN 0
  ELSE IF t - sent[Len(sent)] >= Hour THEN 0
  ELSE 1 + SentSinceBoundary(SubSeq(sent, 1, Len(sent) - 1), sent[Len(sent)])

\* C15 as stated: the hour count that getStats reports is the number of
\* recordMessageSent calls since the last gap of an hour or more between
\* sends, whatever recordMessageFailed calls were made in between.
C15_HourlyCountIsWindow ==
  pout.op = "getStats" =>
    pout.result.messagesThisHour = SentSinceBoundary(pout.sent, pout.at)


\* C16 as stated, for caps of at least one message: a denial for the hour
\* carries the time until an hour has passed since lastSentAt, a denial
\* for the day the time until the next midnight, and canSendMessage asked
\* again after that time, with nothing sent in between, does not deny for
\* the same reason.
C16_RetryAfter ==
  (/\ pout.op = "retry"
   /\ ~pout.result.first.allowed
   /\ pin.rateLimit.messagesPerHour > 0
   /\ pin.rateLimit.messagesPerDay > 0) =>
    LET first == pout.result.first
        second == pout.result.second
    IN /\ first.reason = HourlyReason =>
            Val(first.waitTime) = Val(pin.stats.lastSentAt) + Hour - pin.now
       /\ first.reason = DailyReason =>
            Val(first.waitTime) = (DayOf(pin.now) + 1) * Day - pin.now
       /\ second.allowed \/ second.reason # first.reason


\* C17 as stated: a sendMessage that was admitted and returns a failure has
\* appended one record to the message history, with success false and an
\* error text.
C17_FailureHasHistory ==
  \A p \in Procs :
    (Returned(p) /\ procs[p].admitted /\ ~procs[p].result.success) =>
      LET before == PreOf(p).messageHistory
          after == storage.messageHistory
      IN /\ Len(after) = Len(before) + 1
         /\ SubSeq(after, 1, Len(before)) = before
         /\ ~after[Len(after)].success
         /\ after[Len(after)].error # ""


\* the profile stored under id, if any
ProfileWithId(sto, id) ==
  { sto.profiles[i] : i \in { j \in DOMAIN sto.profiles :
                                sto.profiles[j].id = id } }

\* the step in which updateProfileMessageCount writes the profiles after a
\* successful delivery to id
SuccessWrites(id) ==
  \E p \in Procs :
    /\ procs[p].path = "ok" /\ procs[p].profile.id = id
    /\ procs[p].pc = "profGet" /\ procs'[p].pc = "profSet"

\* C18 as stated: except in the step of the full reset, a stored profile
\* stays stored, its messageCount does not decrease, and its messageCount
\* and lastMessageSent change only in the write that follows a successful
\* delivery to it.
C18_CountOnlyGrows ==
  [][storage' # EmptyStorage =>
       \A id \in 1..NProfiles :
         \A r \in ProfileWithId(storage, id) :
           \E r2 \in ProfileWithId(storage', id) :
             /\ r2.messageCount >= r.messageCount
             /\ r2 # r => SuccessWrites(id)
    ]_vars


\* C19: every stored profile has a messageCount of at least 0, and has
\* lastMessageSent set exactly when its messageCount is positive.
C19_CountAndDateAgree ==
  \A i \in DOMAIN storage.profiles :
    /\ storage.profiles[i].messageCount >= 0
    /\ IsSet(storage.profiles[i].lastMessageSent)
         <=> storage.profiles[i].messageCount > 0

\* a successful send has written a profile that an earlier send of this
\* session had written
C19_Witness ==
  \E i \in DOMAIN storage.profiles, p \in Procs :
    /\ storage.profiles[i].messageCount = 2
    /\ storage.profiles[i].lastMessageSent = Some(now)
    /\ Returned(p) /\ procs[p].path = "ok"
    /\ procs[p].profile.id = storage.profiles[i].id
    /\ StoredProfile(PreOf(p), p) =
         { [procs[p].profile EXCEPT !.messageCount = 1,
                                    !.lastMessageSent = Some(now)] }


\* the window counts of a ledger do not exceed its lifetime count
WithinTotal(stats) ==
  /\ stats.messagesThisHour <= stats.totalSent
  /\ stats.messagesToday <= stats.totalSent

\* C20: in the stats of every rate limiter and in the stored stats, the
\* hour count and the day count are at most totalSent.
C20_WindowsWithinTotal ==
  /\ \A l \in DOMAIN limiters : WithinTotal(limiters[l].stats)
  /\ WithinTotal(Persisted(storage))

\* the limiter has recorded and saved a second send after its hour count
\* was rolled over
C20_Witness ==
  /\ pout.op = "recordMessageSent"
  /\ Len(pout.sent) = 2
  /\ messageDeliveryService # 0
  /\ ~limiters[messageDeliveryService].loading
  /\ limiters[messageDeliveryService].stats.totalSent = 2
  /\ limiters[messageDeliveryService].stats.messagesThisHour = 1
  /\ Persisted(storage) = limiters[messageDeliveryService].stats


\* C21 as stated: except in a step that empties the store, the stored
\* totalSent and totalFailed do not decrease.
C21_TotalsNeverDecrease ==
  [][storage' # EmptyStorage =>
       /\ Persisted(storage').totalSent >= Persisted(storage).totalSent
       /\ Persisted(storage').totalFailed >= Persisted(storage).totalFailed
    ]_vars


\* new is old, or old with one entry appended, the oldest entry evicted
\* when old was full
Appended(old, new, cap) ==
  /\ Len(new) <= cap
  /\ \/ new = old
     \/ /\ Len(new) = Len(old) + 1
        /\ SubSeq(new, 1, Len(old)) = old
     \/ /\ Len(old) = cap /\ Len(new) = cap
        /\ SubSeq(new, 1, cap - 1) = Tail(old)

\* C22 as stated: except in a step that empties the store, the message
\* history only grows by appended entries, within its cap of 500 with the
\* oldest entry evicted first, and so do the templates within 1000.
C22_AppendOnlyCapped ==
  [][storage' # EmptyStorage =>
       /\ Appended(storage.messageHistory, storage'.messageHistory,
                   HistoryCap)
       /\ Appended(storage.messageTemplates, storage'.messageTemplates,
                   TemplateCap)
    ]_vars

SetFiltersOk(r, f) ==
  /\ NonEmptyList(f.countries) =>
       IsSet(r.country) /\ Val(r.country) \in Val(f.countries)
  /\ NonEmptyList(f.ageGroups) =>
       (IF IsSet(r.ageGroup) THEN Val(r.ageGroup)
        ELSE CategorizeAgeGroup(r.age)) \in Val(f.ageGroups)
  /\ NonEmptyList(f.interests) =>
       IsSet(r.interests) /\ Val(r.interests) \cap Val(f.interests) # {}

\* the recipient's age lies within every bound that is configured
AgeWithinRange(r, f) ==
  /\ IsSet(f.minAge) => IsSet(r.age) /\ Val(r.age) >= Val(f.minAge)
  /\ IsSet(f.maxAge) => IsSet(r.age) /\ Val(r.age) <= Val(f.maxAge)

\* a known age lies within every bound other than 0; a recipient of
\* unknown age is not tested
KnownAgeWithinRange(r, f) ==
  TruthyNumber(r.age) =>
    /\ TruthyNumber(f.minAge) => Val(r.age) >= Val(f.minAge)
    /\ TruthyNumber(f.maxAge) => Val(r.age) <= Val(f.maxAge)

\* C24 as stated: filterProfiles returns, in the order of its input, exactly
\* the recipients that satisfy the country set, the age-group set, the age
\* range and the interest set.
C24_AllDimensions ==
  pout.op = "filterProfiles" =>
    pout.result =
      SelectSeq(pin.recipients,
                LAMBDA r : /\ SetFiltersOk(r, pin.filters)
                           /\ AgeWithinRange(r, pin.filters))

\* C24 amended: filterProfiles returns, in the order of its input, exactly
\* the recipients that satisfy the country set, the age-group set and the
\* interest set (an empty or absent set is no constraint, the interest set
\* is satisfied when it intersects the recipient's interests) and whose
\* age, when it is known, lies within the age bounds other than 0.
C24_KnownAgeInRange ==
  pout.op = "filterProfiles" =>
    pout.result =
      SelectSeq(pin.recipients,
                LAMBDA r : /\ SetFiltersOk(r, pin.filters)
                           /\ KnownAgeWithinRange(r, pin.filters))

\* two recipients were filtered by interest and by age: the second, with
\* one interest of the filter among its two, was kept and the first was not
C24_Witness ==
  /\ pout.op = "filterProfiles"
  /\ Len(pin.recipients) = 2
  /\ NonEmptyList(pin.filters.interests)
  /\ TruthyNumber(pin.filters.maxAge)
  /\ pout.result = << pin.recipients[2] >>
  /\ Val(pin.recipients[2].interests) \cap Val(pin.filters.interests)
       \notin {{}, Val(pin.recipients[2].interests)}
  /\ pin.recipients[1] # pin.recipients[2]

\* a step in which canSendMessage() was called and has returned
CanSendStep ==
  /\ pout'.op = "canSendMessage"
  /\ queue' = queue /\ now' = now
  /\ pout' # pout \/ limiters' # limiters

\* the stats in memory of the rate limiter in use
InMemory == limiters[messageDeliveryService].stats

\* C25 as stated: a call of canSendMessage() leaves the stats in memory
\* and the stored stats as they were.
C25_NoMutation ==
  [][CanSendStep => /\ storage' = storage
                    /\ InMemory' = InMemory]_vars

\* C25 amended: a call of canSendMessage() leaves the stored stats and, in
\* memory, totalSent, totalFailed and lastSentAt as they were; the hour
\* count and the day count in memory are kept or, after a rollover, zeroed;
\* the call is allowed exactly when the counts of the stats rolled over at
\* the current time are below the caps of the policy.
C25_OnlyRollsOver ==
  [][CanSendStep =>
       /\ storage' = storage
       /\ InMemory'.totalSent = InMemory.totalSent
       /\ InMemory'.totalFailed = InMemory.totalFailed
       /\ InMemory'.lastSentAt = InMemory.lastSentAt
       /\ InMemory'.messagesThisHour \in {0, InMemory.messagesThisHour}
       /\ InMemory'.messagesToday \in {0, InMemory.messagesToday}
       /\ pout'.result.allowed =
            /\ UpdateTimeBasedCounts(InMemory, now).messagesToday
                 < settings.rateLimit.messagesPerDay
            /\ UpdateTimeBasedCounts(InMemory, now).messagesThisHour
                 < settings.rateLimit.messagesPerHour
    ]_vars

\* canSendMessage() was called an hour after a send: the hour count is 0
\* in memory and is still stored as it was saved
C25_Witness ==
  /\ pout.op = "canSendMessage"
  /\ messageDeliveryService # 0
  /\ InMemory.totalSent > 0
  /\ InMemory.messagesThisHour = 0
  /\ Persisted(storage).messagesThisHour > 0
  /\ Persisted(storage).lastSentAt = InMemory.lastSentAt

\* the counts of a ledger are within the caps of the policy
WithinCaps(stats) ==
  /\ stats.messagesThisHour <= settings.rateLimit.messagesPerHour
  /\ stats.messagesToday <= settings.rateLimit.messagesPerDay

\* C26 as stated: in every reachable state the hour count and the day
\* count, as stored and in every rate limiter in use, are at most
\* messagesPerHour and messagesPerDay.
C26_CountsWithinCaps ==
  /\ WithinCaps(Persisted(storage))
  /\ \A l \in InUse : WithinCaps(limiters[l].stats)

\* C27 as stated: two successful deliveries of automation cycles to the
\* same recipient are at least the cooldown of 7 days apart.
C27_CooldownBetweenDeliveries ==
  \A i, j \in DOMAIN deliveries :
    (/\ i < j
     /\ deliveries[i].ok /\ deliveries[j].ok
     /\ deliveries[i].to = deliveries[j].to)
      => deliveries[j].at - deliveries[i].at >= CooldownDays * Day

RECURSIVE SumCounts(_)
\* the sum of messageCount over the stored profiles
SumCounts(profiles) ==
  IF profiles = << >> THEN 0
  ELSE Head(profiles).messageCount + SumCounts(Tail(profiles))

\* the number of history records of successful sends
Successes(history) ==
  Cardinality({ i \in DOMAIN history : history[i].success })

\* C28 as stated: whenever no send is in flight, the stored totalSent is
\* the number of successful history records and the sum of messageCount
\* over the stored profiles.
C28_AccountedOnce ==
  (InFlight = {} /\ Quiet) =>
    /\ Persisted(storage).totalSent = Successes(storage.messageHistory)
    /\ Persisted(storage).totalSent = SumCounts(storage.profiles)

\* the sendMessage calls made by sendTestMessage
ManualSends ==
  { p \in Procs : procs[p].kind = "manual" /\ IsSet(procs[p].pre) }

\* C29 as stated: a send of sendTestMessage that finds the stored hour
\* count (within the hour) or the stored day count (on the same day) at its
\* cap is denied with the limiter's reason and delivers nothing.
C29_ManualSendWithinBudget ==
  \A p \in ManualSends :
    (\/ PreStats(p).messagesThisHour >= settings.rateLimit.messagesPerHour
     \/ PreStats(p).messagesToday >= settings.rateLimit.messagesPerDay)
      => /\ ~procs[p].admitted
         /\ ~procs[p].delivered
         /\ Returned(p) => procs[p].result.error \in {DailyReason, HourlyReason}

\* the scheduler holds the handle of an armed timer
Running ==
  /\ automationInterval # 0
  /\ \E x \in timers : x.id = automationInterval

\* the hour count and the day count, rolled over, are below the caps
BudgetLeft(stats) ==
  LET s == UpdateTimeBasedCounts(stats, now)
  IN /\ s.messagesThisHour < settings.rateLimit.messagesPerHour
     /\ s.messagesToday < settings.rateLimit.messagesPerDay

\* the scheduler runs with a generator, a stored profile is eligible (the
\* default filters keep every profile), the budget is left in the store
\* and in the rate limiter of the service, and a further send is within
\* the calls considered
ReadyToSend ==
  /\ Running
  /\ messageDeliveryService # 0 /\ openaiClient
  /\ \E x \in Stored : IsEligible(x, now)
  /\ BudgetLeft(Persisted(storage))
  /\ BudgetLeft(limiters[messageDeliveryService].stats)
  /\ Budget

\* the generator or the delivery transport has failed for a send, which
\* has counted the failure and goes on to its history record
SendFails ==
  \E p \in Procs : /\ procs[p].pc = "recorded"
                   /\ procs[p].path \in {"genfail", "fail", "throw"}

\* a send of a cycle has returned its success, the stored totalSent is
\* above n and the messageCount of its recipient above what it was at the
\* call
Recorded(n) ==
  /\ Persisted(storage).totalSent > n
  /\ \E p \in Procs :
       /\ procs[p].kind = "auto" /\ Returned(p) /\ procs[p].result.success
       /\ \A x \in StoredProfile(storage, p), y \in StoredProfile(PreOf(p), p) :
            x.messageCount > y.messageCount

\* C30: in a behaviour in which the generator and the transport do not
\* fail, whenever the scheduler is running with an eligible recipient and
\* budget left, a successful send is recorded in the end, unless the
\* scheduler is stopped: the stored totalSent and the messageCount of the
\* recipient have grown.
C30_Progress ==
  \/ <>SendFails
  \/ \A n \in 0..MaxCount :
       (ReadyToSend /\ Persisted(storage).totalSent = n)
         ~> (Recorded(n) \/ automationInterval = 0)

\* a send started by a cycle while the scheduler was running has returned
\* its success with the total and the recipient's count stored
C30_Witness ==
  /\ Running
  /\ \E p \in Procs :
       /\ procs[p].kind = "auto" /\ Returned(p) /\ procs[p].result.success
       /\ Persisted(storage).totalSent > Persisted(PreOf(p)).totalSent
       /\ \A x \in StoredProfile(storage, p) : x.messageCount > 0

====
